---- MODULE Spec2Model ----
(***************************************************************************)
(* SnapScript: scene snapshots, transcript and chronological report.       *)
(*                                                                         *)
(* Times of the video decoder are frame indices (FrameTimecode); times of  *)
(* the transcriber and of the timeline are whole milliseconds.             *)
(***************************************************************************)
EXTENDS Integers, Sequences, FiniteSets, TLC

\* ------------------------------------------------------------------ bounds
\* Largest frame index of a generated scene boundary.
MaxFrame == 2
\* Longest generated scene list.
MaxScenes == 2
\* Largest generated stabilization offset, in half seconds.
MaxOffsetHalves == 2
\* Longest generated transcript (number of segments).
MaxSegments == 2
\* Largest suffix "(k)" of a run directory left by earlier runs.
MaxDirs == 2

\* ------------------------------------------------------------ input domains
\* Frame rates of the generated videos (frames per second).
FrameRates == {1, 2}

\* Stabilization offsets in milliseconds (argument --stabilization-offset >= 0).
OffsetsMs == {h * 500 : h \in 0..MaxOffsetHalves}

\* A scene is a pair of FrameTimecodes, held as frame indices.
Scenes == {sc \in [start_time : 0..MaxFrame, end_time : 0..MaxFrame] :
             sc.start_time <= sc.end_time}

\* Scene lists as the detector orders them: each scene starts no earlier than
\* the previous one ends.
SceneLists ==
  {sl \in UNION {[1..k -> Scenes] : k \in 0..MaxScenes} :
     \A k \in 1..(Len(sl) - 1) : sl[k].end_time <= sl[k + 1].start_time}

\* The default of --stabilization-offset: 0.5 s.
DefaultOffsetMs == 500

\* A 25 fps video that is one scene of 10 seconds.
TenSecondVideo ==
  [frame_rate |-> 25, scene_list |-> <<[start_time |-> 0, end_time |-> 250]>>]

\* Scene lists as the detector returns them for a video of 1..MaxFrame frames:
\* none, or scenes of at least one frame that tile the video from frame 0.
DetectedSceneLists ==
  {sl \in SceneLists :
     sl # <<>> =>
       /\ sl[1].start_time = 0
       /\ \A k \in 1..Len(sl) : sl[k].start_time < sl[k].end_time
       /\ \A k \in 1..(Len(sl) - 1) : sl[k].end_time = sl[k + 1].start_time}

\* Segment texts are sequences of characters.
Whitespace == {" ", "\n", "\t"}
\* Transcript segments of the transcriber: start, end (ms) and text. Two of
\* them start together, one has whitespace around and a newline inside its
\* text, one is only whitespace, one is empty.
Segments ==
  {[start |-> 0, end |-> 500, text |-> <<"a">>],
   [start |-> 0, end |-> 1500,
    text |-> <<" ", " ", "h", "e", "l", "l", "o", "\n",
               "w", "o", "r", "l", "d", " ">>],
   [start |-> 1000, end |-> 1500, text |-> <<"b">>],
   [start |-> 1000, end |-> 1500, text |-> <<" ", "\n">>],
   [start |-> 500, end |-> 500, text |-> <<>>]}
SegmentLists == UNION {[1..k -> Segments] : k \in 0..MaxSegments}

\* The run directories of a video "movie" under the output base "out":
\* os.path.join(base_output_dir, base_name), then with " (counter)" appended.
BasePath == "out/movie"
SuffixedPath(counter) == "out/movie (" \o ToString(counter) \o ")"
OutputPaths == {BasePath} \cup {SuffixedPath(k) : k \in 1..MaxDirs}
\* What an earlier run left in its directory.
EarlierContents == {"1.jpg", "movie_snapshots.srt", "report.html"}
\* The output base before the run: any of the paths may be a directory.
OutputLayouts == {[p \in D |-> EarlierContents] : D \in SUBSET OutputPaths}
FreshOutput == [p \in {} |-> EarlierContents]

\* What one seek+read of the decoder can do: give a frame, give False, raise.
ReadOutcomes == {"frame", "false", "raise"}

\* What the environment does during one scene: the first seek+read, the
\* cv2.imwrite after it, the retry seek+read and the cv2.imwrite after that.
SceneEnvs == [read1 : ReadOutcomes, write1 : BOOLEAN,
              read2 : ReadOutcomes, write2 : BOOLEAN]

VARIABLES
  pc,                 \* position of the run
  video,              \* VideoProcessor.video is open
  frame_rate,         \* video.frame_rate
  stabilization_offset, \* VideoProcessor.stabilization_offset_sec, in ms
  scene_list,         \* the list detect_scenes returned (VideoProcessor.
                      \* scene_list is that list, or None after a failure)
  i,                  \* scenes of the extraction loop already processed
  snapshot_details,   \* list of (snapshot_time, snapshot_filename)
  saved_count,        \* extract_snapshots.saved_count
  files,              \* image files written into the output directory
  last,               \* what the latest loop iteration did (its locals, the
                      \* decoder calls it made and what it logged)
  env,                \* the machine: video file, faster-whisper, ffmpeg
  argv,               \* the flags --transcribe and --extract-audio as given
  args,               \* args.transcribe, args.extract_audio
  dirs,               \* directories the run created
  combined_events,    \* process_video.combined_events
  segments_list,      \* process_video.segments_list
  seg_i,              \* segments of the segment loop already processed
  audio,              \* audio_segments_dir, audio_segments_available and
                      \* the per-segment transcoder calls made so far
  temp_audio_file,    \* process_video.temp_audio_file: "none" or the path
  temp_files,         \* temporary audio files present on disk
  srt,                \* the two subtitle files: absent or their entries
  report,             \* what the report generator was called with and did
  detection,          \* how detect_scenes ended: "not_run", "open_failed",
                      \* "detect_failed" or "detected"
  output_dirs,        \* the directories under args.output when the run
                      \* started, each with its files
  run_output_dir,     \* process_video.run_output_dir: "none" or the path
  call,               \* a call of one utility function: its argument and,
                      \* once it returned, its result
  runs,               \* two runs started side by side on one output base:
                      \* the position and the locals of each
  disk,               \* the directories those two runs see under the output
                      \* base, each with the runs that wrote into it
  exit_code           \* what main returned: <<>> while running, else <<0>>,
                      \* <<1>> or <<130>>

extractVars == <<video, frame_rate, scene_list, i, snapshot_details,
                 saved_count, files, last>>
runVars == <<env, args, dirs, combined_events, segments_list, seg_i, audio,
             temp_audio_file, temp_files, srt, report, exit_code>>
sideVars == <<call, runs, disk>>
outVars == <<argv, detection, output_dirs, run_output_dir, sideVars>>
vars == <<pc, stabilization_offset, extractVars, runVars, outVars>>

\* ------------------------------------------------------------ timecodes
\* round(n / d) as Python 3 rounds: to nearest, halves to the even neighbour.
RoundHalfEven(n, d) ==
  LET q == n \div d
      r == n % d
  IN  IF 2 * r < d THEN q
      ELSE IF 2 * r > d THEN q + 1
      ELSE IF q % 2 = 0 THEN q ELSE q + 1

\* FrameTimecode(seconds, fps): the number of frames of a duration in seconds.
\* (faulty variant: rounds every fraction of a frame up)
OffsetTimecode_Ceil(offset_ms, fps) == (offset_ms * fps + 999) \div 1000
OffsetTimecode(offset_ms, fps) == RoundHalfEven(offset_ms * fps, 1000)

\* FrameTimecode.get_seconds(), in milliseconds.
GetSeconds(frames, fps) == (frames * 1000) \div fps

\* f"{i + 1}.jpg" and f"{i + 1}_fallback.jpg"
\* (faulty variant: names the file by the 0-based loop index)
SnapshotFilename_ZeroBased(n) == ToString(n - 1) \o ".jpg"
SnapshotFilename(n) == ToString(n) \o ".jpg"
FallbackFilename(n) == ToString(n) \o "_fallback.jpg"

\* The capture time of one scene, to the warning included.
\* (faulty variants: a short scene is captured at end, not end - 1; a short
\* scene is captured at end - 1 even if it has no frame)
SnapshotTime_AlwaysBackoff(start_time, end_time, offset) ==
  LET shifted == start_time + offset
  IN  IF shifted >= end_time
        THEN [snapshot_time |-> IF end_time > 0 THEN end_time - 1 ELSE 0,
              warned |-> TRUE]
        ELSE [snapshot_time |-> shifted, warned |-> FALSE]
SnapshotTime_NoBackoff(start_time, end_time, offset) ==
  LET shifted == start_time + offset
  IN  IF shifted >= end_time
        THEN [snapshot_time |-> IF end_time > start_time THEN end_time
                                ELSE start_time,
              warned |-> TRUE]
        ELSE [snapshot_time |-> shifted, warned |-> FALSE]
SnapshotTime(start_time, end_time, offset) ==
  LET shifted == start_time + offset
  IN  IF shifted >= end_time
        THEN [snapshot_time |-> IF end_time > start_time THEN end_time - 1
                                ELSE start_time,
              warned |-> TRUE]
        ELSE [snapshot_time |-> shifted, warned |-> FALSE]

\* The frame of the retry after a failed decode at snapshot_time.
\* (faulty variant: retries the same frame)
RetryTarget_SameFrame(snapshot_time) == snapshot_time
RetryTarget(snapshot_time) == snapshot_time - 1

\* Line 131: the time recorded with a fallback frame is snapshot_time, the
\* time of the frame that could not be decoded.
\* (faulty variant: the time of the frame that was written)
FallbackEventTime_OfSavedFrame(snapshot_time) == snapshot_time - 1
FallbackEventTime(snapshot_time) == snapshot_time

\* What cv2.imwrite and the branch on its result leave behind: on success the
\* file and the event (snapshot_time, snapshot_filename), on failure neither.
\* (faulty variant: the event is appended whatever imwrite returns)
SaveFrame_EventAnyway(ok, snapshot_time, snapshot_filename) ==
  [written |-> IF ok THEN "ok" ELSE "fail",
   events |-> <<[snapshot_time |-> snapshot_time,
                 snapshot_filename |-> snapshot_filename]>>,
   newfiles |-> IF ok THEN {snapshot_filename} ELSE {}]
SaveFrame(ok, snapshot_time, snapshot_filename) ==
  IF ok
    THEN [written |-> "ok",
          events |-> <<[snapshot_time |-> snapshot_time,
                        snapshot_filename |-> snapshot_filename]>>,
          newfiles |-> {snapshot_filename}]
    ELSE [written |-> "fail", events |-> <<>>, newfiles |-> {}]

\* Nothing was decoded, so nothing is written.
NothingSaved == [written |-> "none", events |-> <<>>, newfiles |-> {}]

\* No iteration has run yet.
NoIteration ==
  [n |-> 0, snapshot_time |-> 0, warned |-> FALSE, attempts |-> <<>>,
   reads |-> <<>>, written |-> "none", events |-> <<>>, newfiles |-> {}]

\* One iteration of the loop for scene n (1-based) under environment sceneEnv:
\* the frames it tried to decode, what each read gave, what imwrite did, the
\* events it appends and the files it leaves.
ProcessScene(n, t, sceneEnv) ==
  LET st == t.snapshot_time
      mk(att, rd, sv) ==
        [n |-> n, snapshot_time |-> st, warned |-> t.warned, attempts |-> att,
         reads |-> rd, written |-> sv.written, events |-> sv.events,
         newfiles |-> sv.newfiles]
  IN  IF sceneEnv.read1 = "raise" THEN mk(<<st>>, <<"raise">>, NothingSaved)
      ELSE IF sceneEnv.read1 = "frame"
        THEN mk(<<st>>, <<"frame">>,
                SaveFrame(sceneEnv.write1, st, SnapshotFilename(n)))
      ELSE IF st > 0 THEN
        IF sceneEnv.read2 = "raise"
          THEN mk(<<st, RetryTarget(st)>>, <<"false", "raise">>, NothingSaved)
        ELSE IF sceneEnv.read2 = "frame"
          THEN mk(<<st, RetryTarget(st)>>, <<"false", "frame">>,
                  SaveFrame(sceneEnv.write2, FallbackEventTime(st),
                            FallbackFilename(n)))
        ELSE mk(<<st, RetryTarget(st)>>, <<"false", "false">>, NothingSaved)
      ELSE mk(<<st>>, <<"false">>, NothingSaved)

\* Where the loop stands after an iteration: the except clause swallows what a
\* seek, read or write raised, so the loop always goes on.
\* (faulty variant: an exception leaves the loop)
AfterScene_RaiseEndsLoop(r) ==
  IF r.reads[Len(r.reads)] = "raise" THEN "extract_done" ELSE "extract_loop"
AfterScene(r) == "extract_loop"

\* ------------------------------------------- VideoProcessor.extract_snapshots
\* Entry: without scenes or without an open video nothing is extracted.
ExtractSnapshotsBegin ==
  /\ pc = "extract_call"
  /\ IF scene_list = <<>> \/ ~video
       THEN pc' = "extract_done"
       ELSE pc' = "extract_loop"
  /\ i' = 0
  /\ snapshot_details' = <<>>
  /\ saved_count' = 0
  /\ last' = NoIteration
  /\ UNCHANGED <<video, frame_rate, stabilization_offset, scene_list, files>>
  /\ UNCHANGED <<runVars, outVars>>

\* One iteration of the loop over the scenes.
ExtractScene ==
  /\ pc = "extract_loop"
  /\ i < Len(scene_list)
  /\ \E sceneEnv \in SceneEnvs :
       LET sc == scene_list[i + 1]
           t == SnapshotTime(sc.start_time, sc.end_time,
                             OffsetTimecode(stabilization_offset, frame_rate))
           r == ProcessScene(i + 1, t, sceneEnv)
       IN  /\ last' = r
           /\ snapshot_details' = snapshot_details \o r.events
           /\ saved_count' = saved_count + Len(r.events)
           /\ files' = files \cup r.newfiles
           /\ pc' = AfterScene(r)
  /\ i' = i + 1
  /\ UNCHANGED <<video, frame_rate, stabilization_offset, scene_list>>
  /\ UNCHANGED <<runVars, outVars>>

\* After the last scene: the summary log line and the return.
ExtractSnapshotsReturn ==
  /\ pc = "extract_loop"
  /\ i = Len(scene_list)
  /\ pc' = "extract_done"
  /\ UNCHANGED <<stabilization_offset, extractVars, runVars, outVars>>

\* ------------------------------------------------------------ text and sort
\* str.strip(): leading and trailing whitespace removed.
RECURSIVE LStrip(_)
LStrip(text) ==
  IF text # <<>> /\ Head(text) \in Whitespace THEN LStrip(Tail(text)) ELSE text

RECURSIVE RStrip(_)
RStrip(text) ==
  IF text # <<>> /\ text[Len(text)] \in Whitespace
    THEN RStrip(SubSeq(text, 1, Len(text) - 1))
    ELSE text

\* (faulty variant: the text is not stripped)
Strip_None(text) == text
Strip(text) == RStrip(LStrip(text))

\* str.replace('\n', ' ')
\* (faulty variant: the newlines are taken out)
ReplaceNewlines_Removed(text) == SelectSeq(text, LAMBDA c : c # "\n")
ReplaceNewlines(text) ==
  [k \in DOMAIN text |-> IF text[k] = "\n" THEN " " ELSE text[k]]

\* list.sort(key=timestamp) is stable: an element goes behind every element
\* whose key is not larger.
\* (faulty variants: no sorting; an element takes the place of the elements
\* of its key; the largest key first; an element goes before its equals)
InsertByTimestamp_AtEnd(sorted, e) == Append(sorted, e)
InsertByTimestamp_OnePerKey(sorted, e) ==
  LET before == SelectSeq(sorted, LAMBDA x : x.timestamp < e.timestamp)
      after == SelectSeq(sorted, LAMBDA x : x.timestamp > e.timestamp)
  IN  before \o <<e>> \o after
InsertByTimestamp_Descending(sorted, e) ==
  LET before == {k \in DOMAIN sorted : sorted[k].timestamp >= e.timestamp}
      n == Cardinality(before)
  IN  SubSeq(sorted, 1, n) \o <<e>> \o SubSeq(sorted, n + 1, Len(sorted))
InsertByTimestamp_BeforeEqual(sorted, e) ==
  LET before == {k \in DOMAIN sorted : sorted[k].timestamp < e.timestamp}
      n == Cardinality(before)
  IN  SubSeq(sorted, 1, n) \o <<e>> \o SubSeq(sorted, n + 1, Len(sorted))
InsertByTimestamp(sorted, e) ==
  LET before == {k \in DOMAIN sorted : sorted[k].timestamp <= e.timestamp}
      n == Cardinality(before)
  IN  SubSeq(sorted, 1, n) \o <<e>> \o SubSeq(sorted, n + 1, Len(sorted))

RECURSIVE SortInto(_, _)
SortInto(sorted, rest) ==
  IF rest = <<>> THEN sorted
  ELSE SortInto(InsertByTimestamp(sorted, Head(rest)), Tail(rest))

SortByTimestamp(events) == SortInto(<<>>, events)

\* ------------------------------------------------------------ timeline events
NoAudio == ""

SnapshotEvent(d, fps) ==
  [type |-> "snapshot",
   timestamp |-> GetSeconds(d.snapshot_time, fps),
   data |-> d.snapshot_filename]

TranscriptEvent(segment, text, audio_file) ==
  [type |-> "transcript",
   timestamp |-> segment.start,
   end_time |-> segment.end,
   data |-> text,
   audio_file |-> audio_file]

\* f"segment_{int(segment.start * 1000)}-{int(segment.end * 1000)}"
SegmentId(segment) ==
  "segment_" \o ToString(segment.start) \o "-" \o ToString(segment.end)

RelativeAudioFile(segment) == "audio_segments/" \o SegmentId(segment) \o ".mp3"

\* Lines 196-204: the audio reference of a segment's event after the
\* transcoder was called for its clip.
\* (faulty variant: the reference is set whatever the transcoder returned)
AudioReference_Always(segment, extracted) == RelativeAudioFile(segment)
AudioReference(segment, extracted) ==
  IF extracted THEN RelativeAudioFile(segment) ELSE NoAudio

\* ------------------------------------------------------------ subtitle files
NoFile == [present |-> FALSE, entries |-> <<>>]

\* SRTGenerator.create_snapshot_srt: one entry of 0.5 s per snapshot.
\* (faulty variant: the entries are numbered from 0)
SnapshotSrtEntries_ZeroBased(details, fps) ==
  [k \in DOMAIN details |->
     [num |-> k - 1,
      start |-> GetSeconds(details[k].snapshot_time, fps),
      end |-> GetSeconds(details[k].snapshot_time, fps) + 500,
      text |-> details[k].snapshot_filename]]

SnapshotSrtEntries(details, fps) ==
  [k \in DOMAIN details |->
     [num |-> k,
      start |-> GetSeconds(details[k].snapshot_time, fps),
      end |-> GetSeconds(details[k].snapshot_time, fps) + 500,
      text |-> details[k].snapshot_filename]]

\* SRTGenerator.create_transcript_srt: the segments with text, renumbered.
\* (faulty variant: an entry is numbered by its segment's place in the list)
TranscriptSrtEntries_SegmentIndex(segments, segment_num) ==
  LET numbered == [k \in DOMAIN segments |->
                     [index |-> k, segment |-> segments[k]]]
      kept == SelectSeq(numbered,
                        LAMBDA x : Strip(x.segment.text) # <<>>)
  IN  [j \in DOMAIN kept |->
         [num |-> segment_num + kept[j].index - 1,
          start |-> kept[j].segment.start,
          end |-> kept[j].segment.end,
          text |-> ReplaceNewlines(Strip(kept[j].segment.text))]]

RECURSIVE TranscriptSrtEntries(_, _)
TranscriptSrtEntries(segments, segment_num) ==
  IF segments = <<>> THEN <<>>
  ELSE LET segment == Head(segments)
           text == Strip(segment.text)
       IN  IF text = <<>>
             THEN TranscriptSrtEntries(Tail(segments), segment_num)
             ELSE <<[num |-> segment_num, start |-> segment.start,
                     end |-> segment.end, text |-> ReplaceNewlines(text)]>>
                  \o TranscriptSrtEntries(Tail(segments), segment_num + 1)

\* ------------------------------------------------------------ process_video
TempWav == "tmp.wav"
NoTempFile == "none"
\* The report generator: whether create_combined_html_report was called,
\* with which events and flag, what became of the template rendering
\* ("unused", "unavailable" when use_jinja is False, "failed", "written") and
\* of the built-in generator ("unused", "written", "io_error").
NoReport == [called |-> FALSE, events |-> <<>>, audio_available |-> FALSE,
             template |-> "unused", static |-> "unused"]
NoAudioState == [segments_dir |-> FALSE, available |-> FALSE, calls |-> <<>>]

\* The locals of process_video and of the VideoProcessor are gone once
\* process_video is left; what is on disk stays.
Leave(code) ==
  /\ pc' = "exit"
  /\ exit_code' = <<code>>
  /\ video' = FALSE
  /\ frame_rate' = 0
  /\ scene_list' = <<>>
  /\ i' = 0
  /\ snapshot_details' = <<>>
  /\ saved_count' = 0
  /\ last' = NoIteration
  /\ combined_events' = <<>>
  /\ segments_list' = <<>>
  /\ seg_i' = 0
  /\ audio' = NoAudioState
  /\ temp_audio_file' = NoTempFile

\* Lines 64-79: the run cannot start without the video file, nor transcribe
\* without faster-whisper and ffmpeg.
\* (faulty variant: the tools of the transcription are not checked)
PreflightFails_VideoOnly(e, a) == ~e.video_exists
PreflightFails(e, a) ==
  \/ ~e.video_exists
  \/ (a.transcribe /\ (~e.whisper \/ ~e.ffmpeg))

\* Lines 81-87: args.extract_audio after the check of ffmpeg.
\* (faulty variant: the flag is left as it was given)
CheckedExtractAudio_Kept(e, a) == a.extract_audio
CheckedExtractAudio(e, a) == a.extract_audio /\ e.ffmpeg

\* Lines 64-87: the input file and the tools of the requested features.
Preflight ==
  /\ pc = "start"
  /\ IF PreflightFails(env, args)
       THEN /\ Leave(1)
            /\ UNCHANGED args
       ELSE /\ pc' = "make_dir"
            /\ args' = [args EXCEPT
                          !.extract_audio = CheckedExtractAudio(env, args)]
            /\ UNCHANGED <<extractVars, combined_events, segments_list, seg_i,
                           audio, temp_audio_file, exit_code>>
  /\ UNCHANGED outVars
  /\ UNCHANGED <<stabilization_offset, files, env, dirs, temp_files, srt,
                 report>>

\* fs_utils.get_unique_output_dir: the loop over the candidate paths.
RECURSIVE UniquePathFrom(_, _, _)
UniquePathFrom(output_path, counter, isdir) ==
  IF output_path \in isdir
    THEN UniquePathFrom(SuffixedPath(counter), counter + 1, isdir)
    ELSE output_path

\* (faulty variant: an if instead of the while, one suffix is tried)
GetUniqueOutputDir_OneSuffix(isdir) ==
  IF BasePath \in isdir THEN SuffixedPath(1) ELSE BasePath
GetUniqueOutputDir(isdir) == UniquePathFrom(BasePath, 1, isdir)

NoDir == "none"

\* Lines 89-107: the run's output directory (os.makedirs with exist_ok, so an
\* existing directory is taken as it is), then the components.
MakeOutputDir ==
  /\ pc = "make_dir"
  /\ \E created \in BOOLEAN :
       IF created
         THEN /\ pc' = "detect"
              /\ run_output_dir' = GetUniqueOutputDir(DOMAIN output_dirs)
              /\ dirs' = [dirs EXCEPT !.run = TRUE]
              /\ UNCHANGED <<extractVars, combined_events, segments_list,
                             seg_i, audio, temp_audio_file, exit_code>>
         ELSE /\ Leave(1)
              /\ UNCHANGED <<dirs, files, run_output_dir>>
  /\ UNCHANGED sideVars
  /\ UNCHANGED <<argv, detection, output_dirs, stabilization_offset, files,
                 env, args, temp_files, srt, report>>

\* VideoProcessor.detect_scenes and the branch on its result (lines 112-119):
\* the video may fail to open, the detector may raise, or scenes come back.
DetectScenes ==
  /\ pc = "detect"
  /\ \E outcome \in {"open_failed", "detect_failed", "detected"} :
       \E rate \in FrameRates, sl \in DetectedSceneLists :
         /\ video' = (outcome # "open_failed")
         /\ frame_rate' = IF outcome = "open_failed" THEN 0 ELSE rate
         /\ scene_list' = IF outcome = "detected" THEN sl ELSE <<>>
         /\ detection' = outcome
         /\ pc' = IF scene_list' = <<>> THEN "extract_done" ELSE "extract_call"
  /\ snapshot_details' = <<>>
  /\ UNCHANGED sideVars
  /\ UNCHANGED <<argv, output_dirs, run_output_dir, stabilization_offset, i,
                 saved_count, files, last, runVars>>

\* Lines 121-124: the snapshot subtitle file, if there is a snapshot.
CreateSnapshotSrt ==
  /\ pc = "extract_done"
  /\ pc' = "collect"
  /\ srt' = IF snapshot_details # <<>>
              THEN [srt EXCEPT !.snapshots =
                      [present |-> TRUE,
                       entries |-> SnapshotSrtEntries(snapshot_details,
                                                      frame_rate)]]
              ELSE srt
  /\ i' = 0
  /\ saved_count' = 0
  /\ last' = NoIteration
  /\ UNCHANGED outVars
  /\ UNCHANGED <<stabilization_offset, video, frame_rate, scene_list,
                 snapshot_details, files, env, args, dirs, combined_events,
                 segments_list, seg_i, audio, temp_audio_file, temp_files,
                 report, exit_code>>

\* Lines 126-142: one timeline event per snapshot, in list order.
CollectSnapshotEvents ==
  /\ pc = "collect"
  /\ pc' = "transcription"
  /\ combined_events' =
       [k \in DOMAIN snapshot_details |->
          SnapshotEvent(snapshot_details[k], frame_rate)]
  /\ segments_list' = <<>>
  /\ audio' = NoAudioState
  /\ temp_audio_file' = NoTempFile
  /\ UNCHANGED outVars
  /\ UNCHANGED <<stabilization_offset, extractVars, env, args, dirs, seg_i,
                 temp_files, srt, report, exit_code>>

\* Lines 144-155: nothing to do without --transcribe; else the directory of
\* the audio segments, whose failure switches the extraction off.
BeginTranscription ==
  /\ pc = "transcription"
  /\ IF ~args.transcribe
       THEN /\ pc' = "report"
            /\ UNCHANGED <<args, dirs, audio>>
       ELSE /\ pc' = "extract_audio"
            /\ IF args.extract_audio
                 THEN \E created \in BOOLEAN :
                        /\ audio' = [audio EXCEPT !.segments_dir = TRUE]
                        /\ dirs' = [dirs EXCEPT !.audio_segments = created]
                        /\ args' = [args EXCEPT !.extract_audio = created]
                 ELSE UNCHANGED <<args, dirs, audio>>
  /\ UNCHANGED outVars
  /\ UNCHANGED <<stabilization_offset, extractVars, env, combined_events,
                 segments_list, seg_i, temp_audio_file, temp_files, srt,
                 report, exit_code>>

\* Lines 157-161 and 209-210, AudioProcessor.extract_audio: the temporary
\* file is created first, then the transcoder fills it or fails.
ExtractAudio ==
  /\ pc = "extract_audio"
  /\ IF ~env.ffmpeg
       THEN /\ pc' = "report"
            /\ UNCHANGED <<extractVars, combined_events, segments_list, seg_i,
                           audio, temp_audio_file, temp_files, exit_code>>
       ELSE \E outcome \in {"tempfile_error", "transcoder_failed", "extracted"} :
              IF outcome = "tempfile_error"
                THEN /\ Leave(1)
                     /\ UNCHANGED <<files, temp_files>>
                ELSE /\ temp_files' = temp_files \cup {TempWav}
                     /\ temp_audio_file' =
                          IF outcome = "extracted" THEN TempWav ELSE NoTempFile
                     /\ pc' = IF outcome = "extracted" THEN "transcribe"
                              ELSE "report"
                     /\ UNCHANGED <<extractVars, combined_events,
                                    segments_list, seg_i, audio, exit_code>>
  /\ UNCHANGED outVars
  /\ UNCHANGED <<stabilization_offset, files, env, args, dirs, srt, report>>

\* Lines 162-171 and 207-208, TranscriptionService.transcribe: a failure to
\* load the model or to transcribe gives no segments.
Transcribe ==
  /\ pc = "transcribe"
  /\ \E failed \in BOOLEAN, segments \in SegmentLists :
       segments_list' = IF failed THEN <<>> ELSE segments
  /\ pc' = IF segments_list' # <<>> THEN "transcript_srt" ELSE "report"
  /\ UNCHANGED outVars
  /\ UNCHANGED <<stabilization_offset, extractVars, env, args, dirs,
                 combined_events, seg_i, audio, temp_audio_file, temp_files,
                 srt, report, exit_code>>

\* Lines 172-174: the transcript subtitle file.
CreateTranscriptSrt ==
  /\ pc = "transcript_srt"
  /\ pc' = "segments"
  /\ srt' = [srt EXCEPT !.transcript =
               [present |-> TRUE,
                entries |-> TranscriptSrtEntries(segments_list, 1)]]
  /\ seg_i' = 0
  /\ UNCHANGED outVars
  /\ UNCHANGED <<stabilization_offset, extractVars, env, args, dirs,
                 combined_events, segments_list, audio, temp_audio_file,
                 temp_files, report, exit_code>>

\* Line 177: the loop ends after the last segment.
\* (faulty variant: the loop ends before the last segment)
AfterSegment_OneEarly(done, total) ==
  IF done >= total - 1 THEN "report" ELSE "segments"
AfterSegment(done, total) == IF done = total THEN "report" ELSE "segments"

\* Lines 199-200: audio_segments_available once a clip has been extracted.
\* (faulty variant: the flag follows the latest transcoder call)
AudioAvailable_LatestCall(available, extracted) == extracted
AudioAvailable(available, extracted) == available \/ extracted

\* Lines 177-206: one iteration of the loop over the segments.
ProcessSegment ==
  /\ pc = "segments"
  /\ seg_i < Len(segments_list)
  /\ LET segment == segments_list[seg_i + 1]
         text == Strip(segment.text)
     IN  IF text = <<>>
           THEN UNCHANGED <<combined_events, audio>>
           ELSE IF args.extract_audio /\ audio.segments_dir
             THEN \E extracted \in BOOLEAN :
                    /\ combined_events' =
                         Append(combined_events,
                                TranscriptEvent(segment, text,
                                  AudioReference(segment, extracted)))
                    /\ audio' = [audio EXCEPT
                                   !.available =
                                     AudioAvailable(@, extracted),
                                   !.calls = Append(@,
                                     [segment_id |-> SegmentId(segment),
                                      extracted |-> extracted])]
             ELSE /\ combined_events' =
                       Append(combined_events,
                              TranscriptEvent(segment, text, NoAudio))
                  /\ UNCHANGED audio
  /\ seg_i' = seg_i + 1
  /\ pc' = AfterSegment(seg_i', Len(segments_list))
  /\ UNCHANGED outVars
  /\ UNCHANGED <<stabilization_offset, extractVars, env, args, dirs,
                 segments_list, temp_audio_file, temp_files, srt, report,
                 exit_code>>

\* ReportGenerator.create_combined_html_report, lines 168-367. The directory
\* of the report may fail to be made (nothing is rendered); the template
\* engine may be missing (use_jinja False), may raise while rendering or
\* writing, or may write the report; after a missing or failed template the
\* built-in generator runs, and its write succeeds or fails with an IOError.
\* What the built-in generator does after the template path ended as given.
\* (faulty variant: it runs only when the template engine is missing)
StaticRuns_OnlyWithoutEngine(template) == template = "unavailable"
StaticRuns(template) == template \in {"unavailable", "failed"}

\* report.html holds the events the generator was given.
ReportWritten(r) == r.template = "written" \/ r.static = "written"

\* Line 215: the report is made when there is an event.
\* (faulty variant: the report is made in any case)
ReportNeeded_Always(events) == TRUE
ReportNeeded(events) == events # <<>>

\* Lines 214-230: sort the events by time and render them, if there are any;
\* what create_combined_html_report returns is not looked at.
CreateReport ==
  /\ pc = "report"
  /\ pc' = "cleanup"
  /\ IF ReportNeeded(combined_events)
       THEN /\ combined_events' = SortByTimestamp(combined_events)
            /\ \E dir_made \in BOOLEAN,
                  template \in {"unavailable", "failed", "written"},
                  static_written \in BOOLEAN :
                 report' =
                   [called |-> TRUE,
                    events |-> combined_events',
                    audio_available |-> audio.available,
                    template |-> IF dir_made THEN template ELSE "unused",
                    static |-> IF dir_made /\ StaticRuns(template)
                                 THEN IF static_written THEN "written"
                                      ELSE "io_error"
                                 ELSE "unused"]
       ELSE UNCHANGED <<combined_events, report>>
  /\ UNCHANGED outVars
  /\ UNCHANGED <<stabilization_offset, extractVars, env, args, dirs,
                 segments_list, seg_i, audio, temp_audio_file, temp_files,
                 srt, exit_code>>

\* The text the report shows for a transcript event, by the template
\* (report_generator.py line 209) as by the built-in generator (line 337).
RenderedText(event) == ReplaceNewlines(event.data)

\* The texts of the transcript events in the report, in its order.
ReportTexts(r) ==
  LET shown == SelectSeq(r.events, LAMBDA e : e.type = "transcript")
  IN  [k \in DOMAIN shown |-> RenderedText(shown[k])]

\* Lines 232-239: remove the temporary audio file the run knows of, return.
Cleanup ==
  /\ pc = "cleanup"
  /\ temp_files' = IF temp_audio_file # NoTempFile
                     THEN temp_files \ {temp_audio_file}
                     ELSE temp_files
  /\ Leave(0)
  /\ UNCHANGED outVars
  /\ UNCHANGED <<stabilization_offset, files, env, args, dirs, srt, report>>

\* main, lines 264-266: Ctrl-C anywhere in the run ends it with 130.
Interrupt ==
  /\ pc # "exit"
  /\ Leave(130)
  /\ UNCHANGED outVars
  /\ UNCHANGED <<stabilization_offset, files, env, args, dirs, temp_files,
                 srt, report>>

\* --------------------------------------------------------------------------
\* No utility function is being called on its own, and no second run is
\* started beside the run.
NoCall == [fn |-> "none", arg |-> 0, result |-> <<>>, returned |-> FALSE]
NoRuns == <<>>
NoDisk == <<>>

\* --------------------------------------------------------------------------
\* The state before process_video: nothing opened, nothing written.
NoRun ==
  /\ dirs = [run |-> FALSE, audio_segments |-> FALSE]
  /\ combined_events = <<>>
  /\ segments_list = <<>>
  /\ seg_i = 0
  /\ audio = NoAudioState
  /\ temp_audio_file = NoTempFile
  /\ temp_files = {}
  /\ srt = [snapshots |-> NoFile, transcript |-> NoFile]
  /\ report = NoReport
  /\ exit_code = <<>>
  /\ call = NoCall
  /\ runs = NoRuns
  /\ disk = NoDisk

Init ==
  /\ pc = "start"
  /\ env \in [video_exists : BOOLEAN, whisper : BOOLEAN, ffmpeg : BOOLEAN]
  /\ argv \in [transcribe : BOOLEAN, extract_audio : BOOLEAN]
  /\ args = argv
  /\ stabilization_offset \in {0, DefaultOffsetMs}
  /\ video = FALSE
  /\ frame_rate = 0
  /\ scene_list = <<>>
  /\ i = 0
  /\ snapshot_details = <<>>
  /\ saved_count = 0
  /\ files = {}
  /\ last = NoIteration
  /\ detection = "not_run"
  /\ output_dirs = FreshOutput
  /\ run_output_dir = NoDir
  /\ NoRun

Next ==
  \/ Preflight
  \/ MakeOutputDir
  \/ DetectScenes
  \/ ExtractSnapshotsBegin
  \/ ExtractScene
  \/ ExtractSnapshotsReturn
  \/ CreateSnapshotSrt
  \/ CollectSnapshotEvents
  \/ BeginTranscription
  \/ ExtractAudio
  \/ Transcribe
  \/ CreateTranscriptSrt
  \/ ProcessSegment
  \/ CreateReport
  \/ Cleanup
  \/ Interrupt

Spec == Init /\ [][Next]_vars

\* --------------------------------------------------------------------------
\* The snapshot extraction on its own: a VideoProcessor whose detect_scenes
\* has returned, about to run extract_snapshots on a fresh output directory.
InitExtract ==
  /\ pc = "extract_call"
  /\ video = TRUE
  /\ \/ /\ frame_rate \in FrameRates
        /\ stabilization_offset \in OffsetsMs
        /\ scene_list \in SceneLists
     \/ /\ frame_rate = TenSecondVideo.frame_rate
        /\ stabilization_offset = DefaultOffsetMs
        /\ scene_list = TenSecondVideo.scene_list
  /\ i = 0
  /\ snapshot_details = <<>>
  /\ saved_count = 0
  /\ files = {}
  /\ last = NoIteration
  /\ env = [video_exists |-> TRUE, whisper |-> FALSE, ffmpeg |-> FALSE]
  /\ argv = [transcribe |-> FALSE, extract_audio |-> FALSE]
  /\ args = argv
  /\ detection = "detected"
  /\ output_dirs = FreshOutput
  /\ run_output_dir = BasePath
  /\ NoRun

NextExtract == ExtractSnapshotsBegin \/ ExtractScene \/ ExtractSnapshotsReturn

SpecExtract == InitExtract /\ [][NextExtract]_vars

\* --------------------------------------------------------------------------
\* The run without transcription, started on an output base that earlier runs
\* may have filled.
InitDirs ==
  /\ pc = "start"
  /\ env \in [video_exists : {TRUE}, whisper : BOOLEAN, ffmpeg : BOOLEAN]
  /\ argv = [transcribe |-> FALSE, extract_audio |-> FALSE]
  /\ args = argv
  /\ stabilization_offset = DefaultOffsetMs
  /\ video = FALSE
  /\ frame_rate = 0
  /\ scene_list = <<>>
  /\ i = 0
  /\ snapshot_details = <<>>
  /\ saved_count = 0
  /\ files = {}
  /\ last = NoIteration
  /\ detection = "not_run"
  /\ output_dirs \in OutputLayouts
  /\ run_output_dir = NoDir
  /\ NoRun

NextDirs ==
  \/ Preflight
  \/ MakeOutputDir
  \/ DetectScenes
  \/ ExtractSnapshotsBegin
  \/ ExtractScene
  \/ ExtractSnapshotsReturn
  \/ CreateSnapshotSrt
  \/ CollectSnapshotEvents
  \/ BeginTranscription
  \/ CreateReport
  \/ Cleanup
  \/ Interrupt

SpecDirs == InitDirs /\ [][NextDirs]_vars

\* Every file of the run is written under run_output_dir (main.py lines 119,
\* 123, 151, 173 and 220): the files a directory of the output base holds.
RunContents ==
  files
  \cup (IF srt.snapshots.present THEN {"movie_snapshots.srt"} ELSE {})
  \cup (IF srt.transcript.present THEN {"movie_transcript.srt"} ELSE {})
  \cup (IF dirs.audio_segments THEN {"audio_segments"} ELSE {})
  \cup (IF ReportWritten(report) THEN {"report.html"} ELSE {})

\* A file is <<who wrote it, its name>>; a file the run writes replaces an
\* earlier file of that name.
DirContents(path) ==
  LET earlier == IF path \in DOMAIN output_dirs THEN output_dirs[path] ELSE {}
      own == IF path = run_output_dir THEN RunContents ELSE {}
  IN  {<<"run", f>> : f \in own} \cup {<<"earlier", f>> : f \in earlier \ own}

\* ==========================================================================
\* utils/time_utils.py
\* ==========================================================================
\* Largest whole number of hours of a generated subtitle time.
MaxHours == 1

\* Times handed to format_srt_time, in ms: every combination of a few hours
\* (one of them of three digits), minutes, seconds and milliseconds, among
\* them 0.0 s and 3725.4 s.
SrtTimes ==
  {((h * 60 + m) * 60 + s) * 1000 + ms :
     h \in (0..MaxHours) \cup {100}, m \in {0, 2, 59}, s \in {0, 5, 59},
     ms \in {0, 1, 400, 999}}

\* The decimal digits, and a number written out as str() and the format
\* specifications 02 and 03 write it: in decimal, filled with zeros on the
\* left up to the width, never cut.
Digit == <<"0", "1", "2", "3", "4", "5", "6", "7", "8", "9">>

RECURSIVE Decimal(_)
Decimal(n) ==
  IF n < 10 THEN <<Digit[n + 1]>>
  ELSE Decimal(n \div 10) \o <<Digit[(n % 10) + 1]>>

ZeroPad(n, width) ==
  LET digits == Decimal(n)
  IN  [k \in 1..(width - Len(digits)) |-> "0"] \o digits

\* format_srt_time(time_sec) for a time of time_ms whole milliseconds. The
\* timedelta holds the time as whole seconds and the microseconds beyond
\* them; total_seconds() is split by divmod into hours, minutes and seconds,
\* of which int() keeps the whole part, and the milliseconds come from
\* delta.microseconds.
FormatSrtTime_Microseconds(time_ms) ==
  LET microseconds == (time_ms % 1000) * 1000
      total_seconds == time_ms \div 1000
      hours == total_seconds \div 3600
      remainder == total_seconds % 3600
      minutes == remainder \div 60
      seconds == remainder % 60
  IN  ZeroPad(hours, 2) \o <<":">> \o ZeroPad(minutes, 2) \o <<":">>
        \o ZeroPad(seconds, 2) \o <<",">> \o ZeroPad(microseconds, 3)

FormatSrtTime(time_ms) ==
  LET microseconds == (time_ms % 1000) * 1000
      total_seconds == time_ms \div 1000
      hours == total_seconds \div 3600
      remainder == total_seconds % 3600
      minutes == remainder \div 60
      seconds == remainder % 60
      milliseconds == microseconds \div 1000
  IN  ZeroPad(hours, 2) \o <<":">> \o ZeroPad(minutes, 2) \o <<":">>
        \o ZeroPad(seconds, 2) \o <<",">> \o ZeroPad(milliseconds, 3)

\* One call of format_srt_time.
CallFormatSrtTime ==
  /\ pc = "call"
  /\ call.fn = "format_srt_time"
  /\ ~call.returned
  /\ call' = [call EXCEPT !.result = FormatSrtTime(call.arg),
                          !.returned = TRUE]
  /\ UNCHANGED <<pc, stabilization_offset, extractVars, runVars>>
  /\ UNCHANGED <<argv, detection, output_dirs, run_output_dir, runs, disk>>

\* No run of process_video is under way.
NoPipeline ==
  /\ env = [video_exists |-> FALSE, whisper |-> FALSE, ffmpeg |-> FALSE]
  /\ argv = [transcribe |-> FALSE, extract_audio |-> FALSE]
  /\ args = argv
  /\ stabilization_offset = DefaultOffsetMs
  /\ video = FALSE
  /\ frame_rate = 0
  /\ scene_list = <<>>
  /\ i = 0
  /\ snapshot_details = <<>>
  /\ saved_count = 0
  /\ files = {}
  /\ last = NoIteration
  /\ detection = "not_run"
  /\ output_dirs = FreshOutput
  /\ run_output_dir = NoDir
  /\ dirs = [run |-> FALSE, audio_segments |-> FALSE]
  /\ combined_events = <<>>
  /\ segments_list = <<>>
  /\ seg_i = 0
  /\ audio = NoAudioState
  /\ temp_audio_file = NoTempFile
  /\ temp_files = {}
  /\ srt = [snapshots |-> NoFile, transcript |-> NoFile]
  /\ report = NoReport
  /\ exit_code = <<>>

\* The utility functions on their own: a call of format_srt_time with a time
\* of whole milliseconds.
InitUtils ==
  /\ pc = "call"
  /\ call \in [fn : {"format_srt_time"}, arg : SrtTimes, result : {<<>>},
               returned : {FALSE}]
  /\ runs = NoRuns
  /\ disk = NoDisk
  /\ NoPipeline

NextUtils == CallFormatSrtTime

SpecUtils == InitUtils /\ [][NextUtils]_vars

\* ==========================================================================
\* Two runs on one output base (utils/fs_utils.py, main.py lines 89-97)
\* ==========================================================================
\* Two processes run process_video for videos of one base name with one
\* --output. Each is at the test of the while loop of get_unique_output_dir
\* ("isdir"), at ensure_directory_exists ("makedirs"), about to write its
\* snapshots, subtitle files and report ("write"), through ("done"), or has
\* given up because the directory could not be made ("failed").
RunIds == {"run1", "run2"}

\* Lines 23-24 of fs_utils.py: the locals when the loop is first tested.
FirstCandidate == [pc |-> "isdir", output_path |-> BasePath, counter |-> 1]

\* Lines 26-30: one test of os.path.isdir(output_path). If the directory
\* exists the loop body takes the next name; if not the path is returned.
IsDir(r) ==
  /\ pc = "two_runs"
  /\ runs[r].pc = "isdir"
  /\ runs' = [runs EXCEPT ![r] =
                IF runs[r].output_path \in DOMAIN disk
                  THEN [pc |-> "isdir",
                        output_path |-> SuffixedPath(runs[r].counter),
                        counter |-> runs[r].counter + 1]
                  ELSE [@ EXCEPT !.pc = "makedirs"]]
  /\ UNCHANGED <<pc, stabilization_offset, extractVars, runVars>>
  /\ UNCHANGED <<argv, detection, output_dirs, run_output_dir, call, disk>>

\* ensure_directory_exists, lines 42-47: os.makedirs(path, exist_ok=True)
\* makes the directory or finds it made, or raises an OSError, after which
\* process_video returns False (main.py 94-95).
EnsureDirectoryExists(r) ==
  /\ pc = "two_runs"
  /\ runs[r].pc = "makedirs"
  /\ \E made \in BOOLEAN :
       IF made
         THEN /\ disk' = [p \in DOMAIN disk \cup {runs[r].output_path} |->
                            IF p \in DOMAIN disk THEN disk[p] ELSE {}]
              /\ runs' = [runs EXCEPT ![r].pc = "write"]
         ELSE /\ runs' = [runs EXCEPT ![r].pc = "failed"]
              /\ UNCHANGED disk
  /\ UNCHANGED <<pc, stabilization_offset, extractVars, runVars>>
  /\ UNCHANGED <<argv, detection, output_dirs, run_output_dir, call>>

\* main.py lines 119-226: the run writes its files under run_output_dir.
WriteOutput(r) ==
  /\ pc = "two_runs"
  /\ runs[r].pc = "write"
  /\ disk' = [disk EXCEPT ![runs[r].output_path] = @ \cup {r}]
  /\ runs' = [runs EXCEPT ![r].pc = "done"]
  /\ UNCHANGED <<pc, stabilization_offset, extractVars, runVars>>
  /\ UNCHANGED <<argv, detection, output_dirs, run_output_dir, call>>

\* Both runs start on an output base that earlier runs may have filled.
InitTwoRuns ==
  /\ pc = "two_runs"
  /\ runs = [r \in RunIds |-> FirstCandidate]
  /\ disk \in {[p \in D |-> {"earlier"}] : D \in SUBSET OutputPaths}
  /\ call = NoCall
  /\ NoPipeline

NextTwoRuns ==
  \E r \in RunIds : IsDir(r) \/ EnsureDirectoryExists(r) \/ WriteOutput(r)

SpecTwoRuns == InitTwoRuns /\ [][NextTwoRuns]_vars

\* ==========================================================================
\* Properties of VideoProcessor.extract_snapshots (under SpecExtract)
\* ==========================================================================
\* The scene the latest iteration worked on, and its offset in frames.
LastScene == scene_list[last.n]
OffsetFrames == OffsetTimecode(stabilization_offset, frame_rate)
OffsetFits == LastScene.start_time + OffsetFrames < LastScene.end_time

\* The file name carries ordinal k: it reads "<k>.jpg" or "<k>_fallback.jpg".
NamesScene(name, k) ==
  name \in {ToString(k) \o ".jpg", ToString(k) \o "_fallback.jpg"}
EventsOfScene(k) ==
  {p \in DOMAIN snapshot_details :
     NamesScene(snapshot_details[p].snapshot_filename, k)}

\* The 10-second scene at 25 fps with offset 0.5 s has been processed.
ScenarioProcessed ==
  /\ frame_rate = TenSecondVideo.frame_rate
  /\ stabilization_offset = DefaultOffsetMs
  /\ scene_list = TenSecondVideo.scene_list
  /\ last.n = 1

InScenario ==
  /\ ScenarioProcessed
  /\ last.reads = <<"frame">>
  /\ last.written = "ok"

\* The general half of C1: when start + offset is before end, the capture time
\* is start + offset frames; offset 0 captures at the scene start.
CaptureAtOffset ==
  last.n > 0 =>
    /\ OffsetFits => last.snapshot_time = LastScene.start_time + OffsetFrames
    /\ stabilization_offset = 0 => last.snapshot_time = LastScene.start_time

\* C1 as claimed: the capture time is start + offset frames whenever that is
\* before end, and the 10-second scene at 25 fps with offset 0.5 s gives one
\* snapshot at 0.5 s named 1.jpg.
C1_SnapshotAtHalfSecond ==
  /\ CaptureAtOffset
  /\ InScenario =>
       /\ Len(snapshot_details) = 1
       /\ GetSeconds(snapshot_details[1].snapshot_time, frame_rate) = 500
       /\ snapshot_details[1].snapshot_filename = "1.jpg"

\* C1 amended: the capture time is start + offset frames whenever that is
\* before end, and the 10-second scene at 25 fps with offset 0.5 s is captured
\* at frame 12, i.e. 0.48 s; decoded and written, it is the one snapshot 1.jpg.
C1_SnapshotAtOffsetFrames ==
  /\ CaptureAtOffset
  /\ ScenarioProcessed =>
       /\ last.snapshot_time = 12
       /\ GetSeconds(last.snapshot_time, frame_rate) = 480
  /\ InScenario =>
       /\ Len(snapshot_details) = 1
       /\ GetSeconds(snapshot_details[1].snapshot_time, frame_rate) = 480
       /\ snapshot_details[1].snapshot_filename = "1.jpg"

C1_Witness ==
  /\ InScenario
  /\ pc = "extract_done"
  /\ OffsetFits
  /\ snapshot_details =
       <<[snapshot_time |-> 12, snapshot_filename |-> "1.jpg"]>>

\* C2: when start + offset is not before end, the capture time is end - 1
\* frame if the scene has more than one frame and start otherwise; the case is
\* warned about and the scene is still decoded at that time and, decoded and
\* written, still yields its event.
C2_ShortSceneBacksOff ==
  (last.n > 0 /\ ~OffsetFits) =>
    /\ last.snapshot_time =
         IF LastScene.end_time > LastScene.start_time
           THEN LastScene.end_time - 1
           ELSE LastScene.start_time
    /\ last.warned
    /\ Len(last.attempts) >= 1
    /\ last.attempts[1] = last.snapshot_time
    /\ (last.reads = <<"frame">> /\ last.written = "ok") =>
         EventsOfScene(last.n) # {}

C2_Witness ==
  /\ last.n > 0
  /\ ~OffsetFits
  /\ LastScene.end_time > LastScene.start_time + 1
  /\ last.snapshot_time = LastScene.end_time - 1
  /\ last.written = "ok"

\* The first decode of the latest scene gave no frame, away from frame 0.
FirstDecodeFailed ==
  /\ last.n > 0
  /\ last.reads[1] = "false"
  /\ last.snapshot_time # 0

\* C3 as claimed: after a failed decode away from frame 0 there is exactly one
\* more decode, one frame earlier; if it gives a frame, the scene has exactly
\* one event, named <ordinal>_fallback.jpg. No scene is decoded more than twice.
C3_RetryGivesFallbackEvent ==
  /\ Len(last.attempts) <= 2
  /\ FirstDecodeFailed =>
       /\ last.attempts = <<last.snapshot_time, last.snapshot_time - 1>>
       /\ last.reads[2] = "frame" =>
            /\ Cardinality(EventsOfScene(last.n)) = 1
            /\ \A p \in EventsOfScene(last.n) :
                 snapshot_details[p].snapshot_filename =
                   ToString(last.n) \o "_fallback.jpg"

\* C3 amended: as C3, but the fallback event is there only if the retried
\* frame is also written; if the write fails the scene has no event.
C3_RetryWrittenGivesFallbackEvent ==
  /\ Len(last.attempts) <= 2
  /\ FirstDecodeFailed =>
       /\ last.attempts = <<last.snapshot_time, last.snapshot_time - 1>>
       /\ (last.reads[2] = "frame" /\ last.written = "ok") =>
            /\ Cardinality(EventsOfScene(last.n)) = 1
            /\ \A p \in EventsOfScene(last.n) :
                 snapshot_details[p].snapshot_filename =
                   ToString(last.n) \o "_fallback.jpg"
       /\ (last.reads[2] = "frame" /\ last.written = "fail") =>
            EventsOfScene(last.n) = {}
  /\ (last.n > 0 /\ last.reads[1] = "false" /\ last.snapshot_time = 0) =>
       last.attempts = <<0>>

C3_Witness ==
  /\ FirstDecodeFailed
  /\ last.reads = <<"false", "frame">>
  /\ last.written = "ok"
  /\ EventsOfScene(last.n) # {}

\* The latest scene ended without a decoded frame: the decode failed and the
\* retry was not allowed or failed too, or a seek or read raised.
SceneFailed ==
  /\ last.n > 0
  /\ last.reads[Len(last.reads)] \in {"false", "raise"}

\* C4: a scene that ends without a decoded frame yields no event and the loop
\* goes on to the next scene (every scene is reached before the return), and
\* each event of any scene is the one that scene gives by itself, whatever
\* happened to the scenes before it.
C4_FailedSceneSkipped ==
  /\ SceneFailed =>
       /\ EventsOfScene(last.n) = {}
       /\ pc \in {"extract_loop", "extract_done"}
       /\ i = last.n
  /\ (pc = "extract_done" /\ scene_list # <<>>) => i = Len(scene_list)
  /\ \A p \in DOMAIN snapshot_details :
       \E k \in 1..i :
         /\ NamesScene(snapshot_details[p].snapshot_filename, k)
         /\ snapshot_details[p].snapshot_time =
              SnapshotTime(scene_list[k].start_time, scene_list[k].end_time,
                           OffsetFrames).snapshot_time
  /\ (last.n > 0 /\ last.reads[Len(last.reads)] = "frame"
        /\ last.written = "ok") =>
       /\ snapshot_details # <<>>
       /\ snapshot_details[Len(snapshot_details)].snapshot_time =
            last.snapshot_time
       /\ NamesScene(
            snapshot_details[Len(snapshot_details)].snapshot_filename, last.n)

C4_Witness ==
  /\ last.n = 2
  /\ last.written = "ok"
  /\ EventsOfScene(1) = {}
  /\ EventsOfScene(2) # {}

\* C5: at most one event per scene, so at most N events; every event carries
\* an ordinal of 1..N in its file name, and the ordinals increase strictly
\* along the list.
C5_OrdinalsIncrease ==
  /\ Len(snapshot_details) <= Len(scene_list)
  /\ \A p \in DOMAIN snapshot_details :
       \E k \in 1..Len(scene_list) :
         NamesScene(snapshot_details[p].snapshot_filename, k)
  /\ \A k \in 1..Len(scene_list) : Cardinality(EventsOfScene(k)) <= 1
  /\ \A p, q \in DOMAIN snapshot_details :
       \A k, m \in 0..(Len(scene_list) + 1) :
         (p < q /\ NamesScene(snapshot_details[p].snapshot_filename, k)
                /\ NamesScene(snapshot_details[q].snapshot_filename, m))
           => k < m

C5_Witness ==
  /\ pc = "extract_done"
  /\ Len(snapshot_details) = 2
  /\ snapshot_details[1].snapshot_filename = "1_fallback.jpg"
  /\ snapshot_details[2].snapshot_filename = "2.jpg"

\* C9: the image files written are exactly the file names of the events, and
\* a scene whose image write fails has neither a file nor an event.
C9_FilesAreEventFiles ==
  /\ files = {snapshot_details[p].snapshot_filename :
                p \in DOMAIN snapshot_details}
  /\ (last.n > 0 /\ last.written = "fail") =>
       /\ EventsOfScene(last.n) = {}
       /\ \A f \in files : ~NamesScene(f, last.n)

C9_Witness ==
  /\ pc = "extract_done"
  /\ last.written = "fail"
  /\ files # {}

\* ==========================================================================
\* Properties of process_video (under Spec)
\* ==========================================================================
NonDecreasing(events) ==
  \A k \in 1..(Len(events) - 1) : events[k].timestamp <= events[k + 1].timestamp

\* C6: the event sequence handed to the report generator is non-decreasing in
\* timestamp and no longer than the K snapshot events plus the M segments.
C6_MergedSortedAndBounded ==
  /\ report.called => NonDecreasing(report.events)
  /\ (pc = "cleanup" /\ report.called) =>
       /\ report.events = combined_events
       /\ Len(report.events) <= Len(snapshot_details) + Len(segments_list)

\* A report whose events were appended out of time order: a transcript event
\* now stands before a later snapshot, and a blank segment made it shorter.
C6_Witness ==
  /\ pc = "cleanup"
  /\ report.called
  /\ Len(report.events) < Len(snapshot_details) + Len(segments_list)
  /\ \E p, q \in DOMAIN report.events :
       /\ p < q
       /\ report.events[p].type = "transcript"
       /\ report.events[q].type = "snapshot"
       /\ report.events[p].timestamp < report.events[q].timestamp

\* The events of one timestamp, in list order.
AtTime(events, t) == SelectSeq(events, LAMBDA e : e.timestamp = t)
Timestamps(events) == {events[k].timestamp : k \in DOMAIN events}

SnapshotsBeforeTranscripts(events) ==
  \A p, q \in DOMAIN events :
    (p < q /\ events[p].type = "transcript") => events[q].type = "transcript"

\* C7: the sort of the report step keeps events of equal timestamp in the
\* order in which they were appended, which is all snapshots first and then
\* the transcript segments in transcriber order; so at equal timestamps a
\* snapshot stands before a transcript event.
C7_TiesKeepAppendOrder ==
  [][(pc = "report" /\ pc' = "cleanup") =>
       /\ SnapshotsBeforeTranscripts(combined_events)
       /\ \A t \in Timestamps(combined_events) :
            /\ AtTime(combined_events', t) = AtTime(combined_events, t)
            /\ SnapshotsBeforeTranscripts(AtTime(combined_events', t))]_vars

\* A report with a snapshot and two transcript events of one timestamp.
C7_Witness ==
  /\ pc = "cleanup"
  /\ report.called
  /\ \E p \in DOMAIN report.events :
       /\ p + 2 \in DOMAIN report.events
       /\ report.events[p].type = "snapshot"
       /\ report.events[p + 1].type = "transcript"
       /\ report.events[p + 2].type = "transcript"
       /\ report.events[p + 1].data # report.events[p + 2].data
       /\ report.events[p].timestamp = report.events[p + 1].timestamp
       /\ report.events[p].timestamp = report.events[p + 2].timestamp

\* Text that is empty or only whitespace.
Blank(text) == \A k \in DOMAIN text : text[k] \in Whitespace

\* The segments processed so far that have text, in order.
SegmentsWithText ==
  SelectSeq(SubSeq(segments_list, 1, seg_i), LAMBDA sg : ~Blank(sg.text))

TranscriptEvents == SelectSeq(combined_events, LAMBDA e : e.type = "transcript")

\* C8: while and after the segments are processed (before the sort), the
\* transcript events are one per segment with text, in order and keyed by the
\* segment's start; blank segments give no event and no transcoder call, and
\* the transcoder is called once per segment with text when extraction is on.
C8_BlankSegmentsDropped ==
  (pc = "segments" \/ (pc = "report" /\ segments_list # <<>>)) =>
    /\ Len(TranscriptEvents) = Len(SegmentsWithText)
    /\ \A j \in DOMAIN TranscriptEvents :
         /\ TranscriptEvents[j].timestamp = SegmentsWithText[j].start
         /\ TranscriptEvents[j].end_time = SegmentsWithText[j].end
         /\ ~Blank(TranscriptEvents[j].data)
    /\ [j \in DOMAIN audio.calls |-> audio.calls[j].segment_id] =
         IF args.extract_audio /\ audio.segments_dir
           THEN [j \in DOMAIN SegmentsWithText |-> SegmentId(SegmentsWithText[j])]
           ELSE <<>>

\* A blank and a non-blank segment processed with extraction on.
C8_Witness ==
  /\ pc = "report"
  /\ Len(segments_list) = 2
  /\ Blank(segments_list[1].text)
  /\ segments_list[1].text # <<>>
  /\ ~Blank(segments_list[2].text)
  /\ Len(TranscriptEvents) = 1
  /\ Len(audio.calls) = 1

\* C10: when the run has ended, however it ended, no temporary audio file
\* is left.
C10_TempFilesRemoved == pc = "exit" => temp_files = {}

\* ==========================================================================
\* Properties of the run's failures (under Spec)
\* ==========================================================================
\* Nothing of a run is on disk.
NothingOnDisk ==
  /\ ~dirs.run
  /\ ~dirs.audio_segments
  /\ run_output_dir = "none"
  /\ files = {}
  /\ temp_files = {}
  /\ ~srt.snapshots.present
  /\ ~srt.transcript.present
  /\ ~report.called

\* C11: when the video file is missing, or --transcribe is given and
\* faster-whisper or ffmpeg is missing, the run goes from its start straight
\* to its end with exit code 1 (130 if interrupted before the check): the
\* output directory is not made, no scene detection, extraction or
\* transcription is started and nothing is written.
C11_PreflightFailureDoesNothing ==
  (~env.video_exists \/ (argv.transcribe /\ (~env.whisper \/ ~env.ffmpeg))) =>
    /\ pc \in {"start", "exit"}
    /\ pc = "exit" => exit_code \in {<<1>>, <<130>>}
    /\ detection = "not_run"
    /\ NothingOnDisk

\* A run with --transcribe and without ffmpeg has ended with exit code 1.
C11_Witness ==
  /\ pc = "exit"
  /\ exit_code = <<1>>
  /\ env.video_exists
  /\ env.whisper
  /\ ~env.ffmpeg
  /\ argv.transcribe

\* C12: when the transcoder is called for a segment's clip and fails, the
\* segment's event is appended after the events collected so far, which stay
\* as they were; it has the segment's times and trimmed text and no audio
\* reference; the loop goes on to the next segment or to the report; and from
\* the segment loop on the run ends with exit code 0 (130 if interrupted).
C12_ClipFailureKeepsEvent ==
  [][/\ (/\ pc = "segments"
         /\ Len(audio'.calls) = Len(audio.calls) + 1
         /\ ~audio'.calls[Len(audio'.calls)].extracted) =>
          /\ Len(combined_events') = Len(combined_events) + 1
          /\ SubSeq(combined_events', 1, Len(combined_events)) = combined_events
          /\ LET e == combined_events'[Len(combined_events')]
                 segment == segments_list[seg_i + 1]
             IN  /\ e.type = "transcript"
                 /\ e.timestamp = segment.start
                 /\ e.end_time = segment.end
                 /\ ~Blank(e.data)
                 /\ e.audio_file = ""
          /\ audio'.available = audio.available
          /\ seg_i' = seg_i + 1
          /\ segments_list' = segments_list
          /\ pc' = IF seg_i' < Len(segments_list) THEN "segments" ELSE "report"
          /\ exit_code' = <<>>
     /\ (pc \in {"segments", "report", "cleanup"} /\ pc' = "exit") =>
          exit_code' \in {<<0>>, <<130>>}
    ]_vars

\* The clip of the first segment failed, the clip of the second was extracted,
\* and both segments have their event.
C12_Witness ==
  /\ pc = "report"
  /\ Len(audio.calls) = 2
  /\ ~audio.calls[1].extracted
  /\ audio.calls[2].extracted
  /\ Len(TranscriptEvents) = 2
  /\ TranscriptEvents[1].audio_file = ""
  /\ TranscriptEvents[2].audio_file # ""

\* C13: a failure of the whole-video audio extraction, or of the
\* transcription, does not end the run: it goes on to the report with the
\* events it had, without transcript subtitle file, and the report generator
\* is called whenever there is an event.
C13_StageFailureGoesOn ==
  [][/\ (pc = "extract_audio" /\ pc' # "transcribe" /\ exit_code' # <<130>>) =>
          /\ pc' = "report"
          /\ combined_events' = combined_events
          /\ ~srt'.transcript.present
     /\ (pc = "transcribe" /\ segments_list' = <<>> /\ exit_code' # <<130>>) =>
          /\ pc' = "report"
          /\ combined_events' = combined_events
          /\ ~srt'.transcript.present
     /\ (pc = "report" /\ combined_events # <<>> /\ pc' = "cleanup") =>
          report'.called
    ]_vars

\* The segments the transcriber returned are all blank.
OnlyBlankSegments ==
  /\ segments_list # <<>>
  /\ \A j \in DOMAIN segments_list : Blank(segments_list[j].text)

C15_FailureIsNotNoScenes ==
  detection \in {"open_failed", "detect_failed"} =>
    /\ pc = "extract_done" => scene_list # <<>>
    /\ pc = "exit" => exit_code # <<0>>

\* ==========================================================================
\* Properties of the run directory (under SpecDirs)
\* ==========================================================================
\* The k-th candidate: "out/movie", "out/movie (1)", "out/movie (2)", ...
Candidate(k) ==
  IF k = 0 THEN "out/movie" ELSE "out/movie (" \o ToString(k) \o ")"
FirstFreeCandidate ==
  LET free == {k \in 0..(MaxDirs + 1) : Candidate(k) \notin DOMAIN output_dirs}
  IN  Candidate(CHOOSE k \in free : \A j \in free : k <= j)

\* C16: the run directory is the first candidate that was not a directory
\* when the run started, so it is none of the earlier directories, and every
\* earlier directory holds the files it held, as they were.
C16_RunDirectoryIsNew ==
  /\ run_output_dir # "none" =>
       /\ run_output_dir = FirstFreeCandidate
       /\ run_output_dir \notin DOMAIN output_dirs
  /\ \A path \in DOMAIN output_dirs :
       DirContents(path) = {<<"earlier", f>> : f \in output_dirs[path]}

\* "out/movie" existed, "out/movie (1)" did not: the run wrote its report
\* to "out/movie (1)".
C16_Witness ==
  /\ "out/movie" \in DOMAIN output_dirs
  /\ "out/movie (1)" \notin DOMAIN output_dirs
  /\ run_output_dir = "out/movie (1)"
  /\ <<"run", "report.html">> \in DirContents(run_output_dir)

\* ==========================================================================
\* Properties of the exit code, the report and the stages (under Spec)
\* ==========================================================================
\* C17: the exit code is 0, 1 or 130, and it is 0 only for a run in which no
\* processing error occurred: a run whose scene detection failed does not end
\* with 0.
C17_ExitCodeTellsOutcome ==
  pc = "exit" =>
    /\ exit_code \in {<<0>>, <<1>>, <<130>>}
    /\ exit_code = <<0>> => detection = "detected"

\* The template rendering was not available or failed.
TemplateFailed == report.called /\ report.template \in {"unavailable", "failed"}

\* The events the report generator was given are the collected events, all
\* of them, in timeline order.
ReportHasEveryEvent ==
  /\ NonDecreasing(report.events)
  /\ pc = "cleanup" =>
       /\ report.events = combined_events
       /\ Len(SelectSeq(report.events, LAMBDA e : e.type = "snapshot"))
            = Len(snapshot_details)
       /\ Len(SelectSeq(report.events, LAMBDA e : e.type = "transcript"))
            = Len(SelectSeq(segments_list, LAMBDA sg : ~Blank(sg.text)))

\* C18 as stated: after a failed template rendering the built-in generator
\* has written report.html with every event in timeline order, and the run
\* does not fail.
C18_TemplateFailureStillWrites ==
  TemplateFailed =>
    /\ report.static = "written"
    /\ ReportWritten(report)
    /\ ReportHasEveryEvent
    /\ pc = "exit" => exit_code \in {<<0>>, <<130>>}

\* C18 as amended: after a failed template rendering the built-in generator
\* has run; report.html is written, with every event in timeline order,
\* exactly when the write of the built-in generator succeeded; and the run
\* does not fail (exit code 0, or 130 if interrupted).
C18_TemplateFailureRunsStatic ==
  TemplateFailed =>
    /\ report.static \in {"written", "io_error"}
    /\ ReportWritten(report) <=> report.static = "written"
    /\ ReportHasEveryEvent
    /\ pc = "exit" => exit_code \in {<<0>>, <<130>>}

\* The template rendering raised and the built-in generator wrote a report of
\* a snapshot and a transcript event.
C18_Witness ==
  /\ pc = "cleanup"
  /\ report.template = "failed"
  /\ report.static = "written"
  /\ \E p, q \in DOMAIN report.events :
       /\ report.events[p].type = "snapshot"
       /\ report.events[q].type = "transcript"

\* No event of the list carries an audio reference.
NoAudioReference(events) ==
  \A k \in DOMAIN events :
    events[k].type = "transcript" => events[k].audio_file = ""

\* C19: when --extract-audio is given and ffmpeg is missing, the flag is off
\* once the check is passed, the run fails only for another reason (missing
\* video, --transcribe without its tools, no output directory), no
\* audio_segments directory is made, the transcoder is never called for a
\* clip and no event has an audio reference.
C19_ExtractAudioSwitchedOff ==
  (argv.extract_audio /\ ~env.ffmpeg) =>
    /\ pc \notin {"start", "exit"} => ~args.extract_audio
    /\ (pc = "exit" /\ exit_code = <<1>>) =>
         (~env.video_exists \/ argv.transcribe \/ ~dirs.run)
    /\ ~dirs.audio_segments
    /\ ~audio.segments_dir
    /\ audio.calls = <<>>
    /\ NoAudioReference(combined_events)
    /\ NoAudioReference(report.events)
    /\ ~report.audio_available

\* Such a run has gone on to its report.
C19_Witness ==
  /\ argv.extract_audio
  /\ ~env.ffmpeg
  /\ pc = "cleanup"
  /\ report.called

\* The place of a position of the run in the order of the stages: 1 scene
\* detection, 2 snapshot extraction (and the collection of its events),
\* 3 whole-video audio extraction, 4 transcription, 5 per-segment audio
\* extraction, 6 report rendering.
StageRank(position) ==
  CASE position \in {"start", "make_dir"} -> 0
    [] position = "detect" -> 1
    [] position \in {"extract_call", "extract_loop", "extract_done",
                     "collect", "transcription"} -> 2
    [] position = "extract_audio" -> 3
    [] position = "transcribe" -> 4
    [] position \in {"transcript_srt", "segments"} -> 5
    [] position = "report" -> 6
    [] position \in {"cleanup", "exit"} -> 7

\* C20: no step of the run goes back to an earlier stage; the extraction
\* starts from the end of the detection, the transcription from the end of
\* the audio extraction, the segment loop from the end of the transcription;
\* and when the report is rendered, the scene loop and the segment loop are
\* over and the report gets one event per snapshot and per segment with text.
C20_StagesInOrder ==
  [][/\ StageRank(pc') >= StageRank(pc)
     /\ (pc' = "extract_call" /\ pc # pc') => pc = "detect"
     /\ (pc' = "extract_audio" /\ pc # pc') => pc = "transcription"
     /\ (pc' = "transcribe" /\ pc # pc') => pc = "extract_audio"
     /\ (pc' = "transcript_srt" /\ pc # pc') => pc = "transcribe"
     /\ (pc = "report" /\ pc' = "cleanup") =>
          /\ seg_i = Len(segments_list)
          /\ report'.called =>
               /\ Len(SelectSeq(report'.events, LAMBDA e : e.type = "snapshot"))
                    = Len(snapshot_details)
               /\ Len(SelectSeq(report'.events, LAMBDA e : e.type = "transcript"))
                    = Len(SelectSeq(segments_list, LAMBDA sg : ~Blank(sg.text)))
    ]_vars

\* A run in which every stage ran: scenes were extracted, two segments got
\* their clips, the report is rendered.
C20_Witness ==
  /\ pc = "cleanup"
  /\ report.called
  /\ snapshot_details # <<>>
  /\ Len(audio.calls) = 2
  /\ Len(report.events) = Len(snapshot_details) + 2

\* ==========================================================================
\* Properties of format_srt_time (under SpecUtils)
\* ==========================================================================
IsDigits(text) == \A k \in DOMAIN text : \E d \in 0..9 : Digit[d + 1] = text[k]

\* The number a sequence of decimal digits writes.
RECURSIVE NumberOf(_)
NumberOf(digits) ==
  IF digits = <<>> THEN 0
  ELSE NumberOf(SubSeq(digits, 1, Len(digits) - 1)) * 10
         + (CHOOSE d \in 0..9 : Digit[d + 1] = digits[Len(digits)])

\* The four fields of a text shaped HH:MM:SS,mmm, read from its end.
FieldHH(text) == SubSeq(text, 1, Len(text) - 10)
FieldMM(text) == SubSeq(text, Len(text) - 8, Len(text) - 7)
FieldSS(text) == SubSeq(text, Len(text) - 5, Len(text) - 4)
FieldMs(text) == SubSeq(text, Len(text) - 2, Len(text))

\* C21: for a time of whole milliseconds format_srt_time returns
\* HH:MM:SS,mmm: HH of at least two digits, MM and SS of two and mmm of
\* three, ':' between HH, MM and SS and ',' before mmm, MM < 60, SS < 60,
\* mmm < 1000, and the four fields add up to the time given; 3725.4 s gives
\* 01:02:05,400 and 0.0 s gives 00:00:00,000.
C21_SrtTimeReadsBack ==
  (call.fn = "format_srt_time" /\ call.returned) =>
    LET text == call.result
        n == Len(text)
    IN  /\ n >= 12
        /\ text[n - 9] = ":"
        /\ text[n - 6] = ":"
        /\ text[n - 3] = ","
        /\ IsDigits(FieldHH(text)) /\ IsDigits(FieldMM(text))
        /\ IsDigits(FieldSS(text)) /\ IsDigits(FieldMs(text))
        /\ NumberOf(FieldMM(text)) < 60
        /\ NumberOf(FieldSS(text)) < 60
        /\ NumberOf(FieldMs(text)) < 1000
        /\ NumberOf(FieldHH(text)) * 3600000 + NumberOf(FieldMM(text)) * 60000
             + NumberOf(FieldSS(text)) * 1000 + NumberOf(FieldMs(text))
           = call.arg
        /\ call.arg = 3725400 =>
             text = <<"0", "1", ":", "0", "2", ":", "0", "5", ",",
                      "4", "0", "0">>
        /\ call.arg = 0 =>
             text = <<"0", "0", ":", "0", "0", ":", "0", "0", ",",
                      "0", "0", "0">>

\* 3725.4 s has been formatted.
C21_Witness ==
  /\ call.fn = "format_srt_time"
  /\ call.returned
  /\ call.arg = 3725400
  /\ Len(call.result) = 12

\* ==========================================================================
\* Properties of the subtitle files (under Spec)
\* ==========================================================================
\* The segments of the transcription that have text, in order.
SegmentsOfFile == SelectSeq(segments_list, LAMBDA sg : ~Blank(sg.text))

\* The transcript SRT has one entry per segment with text, in segment order,
\* numbered from 1 without gaps, with the segment's own start and end.
TranscriptSrtFollowsSegments ==
  LET entries == srt.transcript.entries
      segments == SegmentsOfFile
  IN  /\ Len(entries) = Len(segments)
      /\ \A j \in DOMAIN entries :
           /\ entries[j].num = j
           /\ entries[j].start = segments[j].start
           /\ entries[j].end = segments[j].end

\* C22 as stated: the transcript SRT has one entry per segment with
\* non-empty trimmed text, in segment order, numbered 1, 2, ... without gaps,
\* each with the segment's start and end and with its trimmed text.
C22_TranscriptSrtTrimmedText ==
  (srt.transcript.present /\ pc # "exit") =>
    /\ TranscriptSrtFollowsSegments
    /\ LET segments == SegmentsOfFile
       IN  \A j \in DOMAIN srt.transcript.entries :
             srt.transcript.entries[j].text = Strip(segments[j].text)

\* C22, amended: as above, but the text of an entry is the trimmed text with
\* every newline replaced by a space.
C22_TranscriptSrtOneLineText ==
  (srt.transcript.present /\ pc # "exit") =>
    /\ TranscriptSrtFollowsSegments
    /\ LET segments == SegmentsOfFile
       IN  \A j \in DOMAIN srt.transcript.entries :
             LET trimmed == Strip(segments[j].text)
             IN  srt.transcript.entries[j].text =
                   [k \in DOMAIN trimmed |->
                      IF trimmed[k] = "\n" THEN " " ELSE trimmed[k]]

\* A blank segment was skipped before a segment whose text has a newline
\* inside: the file has the one entry, numbered 1.
C22_Witness ==
  /\ srt.transcript.present
  /\ pc # "exit"
  /\ Len(segments_list) = 2
  /\ Blank(segments_list[1].text)
  /\ \E k \in DOMAIN Strip(segments_list[2].text) :
       Strip(segments_list[2].text)[k] = "\n"
  /\ Len(srt.transcript.entries) = 1
  /\ srt.transcript.entries[1].num = 1

\* C23: the snapshot SRT has exactly one entry per snapshot event, in event
\* order, numbered 1, 2, ...; entry k starts at the capture time of the k-th
\* event, ends 0.5 s later and has that event's filename as its text; and
\* the file is written only when there is a snapshot event.
C23_SnapshotSrtFollowsEvents ==
  /\ srt.snapshots.present => srt.snapshots.entries # <<>>
  /\ (srt.snapshots.present /\ pc # "exit") =>
       LET entries == srt.snapshots.entries
       IN  /\ Len(entries) = Len(snapshot_details)
           /\ \A k \in DOMAIN entries :
                /\ entries[k].num = k
                /\ entries[k].start * frame_rate =
                     snapshot_details[k].snapshot_time * 1000
                /\ entries[k].end = entries[k].start + 500
                /\ entries[k].text = snapshot_details[k].snapshot_filename
  /\ (pc \in {"collect", "transcription"} /\ snapshot_details = <<>>) =>
       ~srt.snapshots.present

\* The file of two snapshot events, the second taken after the first.
C23_Witness ==
  /\ srt.snapshots.present
  /\ pc # "exit"
  /\ Len(snapshot_details) = 2
  /\ Len(srt.snapshots.entries) = 2
  /\ srt.snapshots.entries[2].num = 2
  /\ srt.snapshots.entries[2].start > srt.snapshots.entries[1].start

\* A text with every newline turned into one space.
OneLine(text) ==
  [k \in DOMAIN text |-> IF text[k] = "\n" THEN " " ELSE text[k]]

\* The segment text '  hello\nworld ' and the text 'hello world'.
HelloWorldSegment ==
  <<" ", " ", "h", "e", "l", "l", "o", "\n", "w", "o", "r", "l", "d", " ">>
HelloWorld == <<"h", "e", "l", "l", "o", " ", "w", "o", "r", "l", "d">>

\* What the report and the transcript SRT show for a segment is its text
\* trimmed and with every newline replaced by a space: the report has one
\* text per segment with text, each the text of a segment of its event's
\* start and end; the SRT has those segments' texts in segment order.
ShownTextIsOneLine ==
  /\ (report.called /\ pc = "cleanup") =>
       LET shown == SelectSeq(report.events, LAMBDA e : e.type = "transcript")
           texts == ReportTexts(report)
           segments == SegmentsOfFile
       IN  /\ Len(texts) = Len(segments)
           /\ \A k \in DOMAIN shown :
                \E j \in DOMAIN segments :
                  /\ segments[j].start = shown[k].timestamp
                  /\ segments[j].end = shown[k].end_time
                  /\ texts[k] = OneLine(Strip(segments[j].text))
                  /\ segments[j].text = HelloWorldSegment =>
                       texts[k] = HelloWorld
  /\ (srt.transcript.present /\ pc # "exit") =>
       LET entries == srt.transcript.entries
           segments == SegmentsOfFile
       IN  /\ Len(entries) = Len(segments)
           /\ \A j \in DOMAIN entries :
                /\ entries[j].text = OneLine(Strip(segments[j].text))
                /\ segments[j].text = HelloWorldSegment =>
                     entries[j].text = HelloWorld

\* C24 as stated: the text stored in the timeline event of a segment, like
\* the text the report and the transcript SRT show, is the segment text
\* trimmed and with every newline replaced by a space.
C24_StoredTextIsOneLine ==
  /\ ShownTextIsOneLine
  /\ (pc = "segments" \/ (pc = "report" /\ segments_list # <<>>)) =>
       LET events == TranscriptEvents
           segments == SegmentsWithText
       IN  /\ Len(events) = Len(segments)
           /\ \A j \in DOMAIN events :
                events[j].data = OneLine(Strip(segments[j].text))

\* C24, amended: the report and the transcript SRT show the segment text
\* trimmed and with every newline replaced by a space ('  hello\nworld '
\* gives 'hello world'); the timeline event stores the segment text trimmed,
\* with its inner newlines kept.
C24_StoredTextIsTrimmed ==
  /\ ShownTextIsOneLine
  /\ (pc = "segments" \/ (pc = "report" /\ segments_list # <<>>)) =>
       LET events == TranscriptEvents
           segments == SegmentsWithText
       IN  /\ Len(events) = Len(segments)
           /\ \A j \in DOMAIN events :
                LET text == segments[j].text
                    inked == {k \in DOMAIN text : text[k] \notin Whitespace}
                    first == CHOOSE k \in inked : \A m \in inked : k <= m
                    final == CHOOSE k \in inked : \A m \in inked : k >= m
                IN  events[j].data = SubSeq(text, first, final)

\* The report shows 'hello world' for the event that stores 'hello', a
\* newline and 'world'.
C24_Witness ==
  /\ report.called
  /\ pc = "cleanup"
  /\ \E k \in DOMAIN report.events :
       /\ report.events[k].type = "transcript"
       /\ report.events[k].data =
            <<"h", "e", "l", "l", "o", "\n", "w", "o", "r", "l", "d">>
  /\ \E k \in DOMAIN ReportTexts(report) : ReportTexts(report)[k] = HelloWorld
  /\ \E j \in DOMAIN srt.transcript.entries :
       srt.transcript.entries[j].text = HelloWorld

\* ==========================================================================
\* Further properties of VideoProcessor.extract_snapshots (under SpecExtract)
\* ==========================================================================
\* C25: for a scene with end > start the capture time chosen for it, before
\* any decode fallback, satisfies start <= capture time < end; for a scene
\* with end = start it is start.
C25_CaptureTimeInsideScene ==
  last.n > 0 =>
    /\ LastScene.end_time > LastScene.start_time =>
         /\ LastScene.start_time <= last.snapshot_time
         /\ last.snapshot_time < LastScene.end_time
    /\ LastScene.end_time = LastScene.start_time =>
         last.snapshot_time = LastScene.start_time
    /\ last.attempts[1] = last.snapshot_time

\* A scene without a frame, away from frame 0, and a scene of several frames
\* shorter than the offset have been captured.
C25_Witness ==
  /\ last.n = 2
  /\ LastScene.end_time = LastScene.start_time
  /\ LastScene.start_time > 0
  /\ last.snapshot_time = LastScene.start_time
  /\ scene_list[1].end_time > scene_list[1].start_time
  /\ scene_list[1].start_time + OffsetFrames >= scene_list[1].end_time

\* C26: the capture time recorded in a fallback event is the time chosen for
\* the scene, not the time one frame earlier of the frame that was written to
\* '<ordinal>_fallback.jpg'; when the chosen time is the scene's start, the
\* frame written lies before the scene's start.
C26_FallbackKeepsChosenTime ==
  \A p \in DOMAIN snapshot_details :
    (last.n > 0
       /\ snapshot_details[p].snapshot_filename =
            ToString(last.n) \o "_fallback.jpg") =>
      LET saved_frame == last.attempts[Len(last.attempts)]
      IN  /\ last.reads = <<"false", "frame">>
          /\ snapshot_details[p].snapshot_time = last.snapshot_time
          /\ saved_frame = last.snapshot_time - 1
          /\ snapshot_details[p].snapshot_time # saved_frame
          /\ last.snapshot_time = LastScene.start_time =>
               saved_frame < LastScene.start_time
          /\ ToString(last.n) \o "_fallback.jpg" \in files

\* A fallback event of a scene captured at its start: the frame written is
\* the last frame before the scene.
C26_Witness ==
  /\ last.n > 0
  /\ last.snapshot_time = LastScene.start_time
  /\ last.reads = <<"false", "frame">>
  /\ \E p \in DOMAIN snapshot_details :
       /\ snapshot_details[p].snapshot_filename =
            ToString(last.n) \o "_fallback.jpg"
       /\ snapshot_details[p].snapshot_time = LastScene.start_time
  /\ last.attempts[2] < LastScene.start_time

\* ==========================================================================
\* Further properties of the timeline (under Spec)
\* ==========================================================================
\* The ordinal of the scene a snapshot file is named after.
OrdinalOf(name) == CHOOSE n \in 1..MaxScenes : NamesScene(name, n)

\* The snapshot events of a list of timeline events, in its order.
SnapshotsOf(events) == SelectSeq(events, LAMBDA e : e.type = "snapshot")

Count(seq, x) == Cardinality({k \in DOMAIN seq : seq[k] = x})

\* Two sequences hold the same elements, each as often.
SameElements(s1, s2) ==
  /\ Len(s1) = Len(s2)
  /\ \A k \in DOMAIN s1 : Count(s1, s1[k]) = Count(s2, s1[k])

\* The snapshot events the run emitted and the transcript events of its
\* segments with text, as they go into the merge: type, timestamp, payload.
EmittedSnapshots ==
  [k \in DOMAIN snapshot_details |->
     [type |-> "snapshot",
      timestamp |-> (snapshot_details[k].snapshot_time * 1000) \div frame_rate,
      data |-> snapshot_details[k].snapshot_filename]]
EmittedTranscripts ==
  [j \in DOMAIN SegmentsOfFile |->
     [type |-> "transcript",
      timestamp |-> SegmentsOfFile[j].start,
      end_time |-> SegmentsOfFile[j].end,
      data |-> Strip(SegmentsOfFile[j].text)]]

\* A transcript event without its audio reference.
WithoutAudio(e) ==
  [type |-> e.type, timestamp |-> e.timestamp, end_time |-> e.end_time,
   data |-> e.data]

\* C28: the merged timeline is a permutation of its inputs: each emitted
\* snapshot event once and each segment with non-empty trimmed text once,
\* with type, timestamp and payload unchanged, and nothing else; its length
\* is K + M', M' being the number of segments with text.
C28_MergeIsPermutation ==
  (report.called /\ pc = "cleanup") =>
    LET merged == report.events
        transcripts == SelectSeq(merged, LAMBDA e : e.type = "transcript")
        snapshots == SnapshotsOf(merged)
        stripped == [k \in DOMAIN transcripts |-> WithoutAudio(transcripts[k])]
        emitted_snapshots == EmittedSnapshots
        emitted_transcripts == EmittedTranscripts
    IN  /\ Len(merged) = Len(snapshot_details) + Len(emitted_transcripts)
        /\ \A k \in DOMAIN merged :
             merged[k].type \in {"snapshot", "transcript"}
        /\ SameElements(snapshots, emitted_snapshots)
        /\ SameElements(stripped, emitted_transcripts)

\* A snapshot event and two equal segments with text of its time, merged:
\* the timeline has the snapshot event and the segment's event twice.
C28_Witness ==
  /\ report.called
  /\ pc = "cleanup"
  /\ Len(snapshot_details) >= 1
  /\ Len(segments_list) = 2
  /\ segments_list[1] = segments_list[2]
  /\ ~Blank(segments_list[1].text)
  /\ Len(report.events) = Len(snapshot_details) + 2
  /\ \E k \in DOMAIN report.events :
       /\ report.events[k].type = "snapshot"
       /\ report.events[k].timestamp = segments_list[1].start

\* The name of the clip of the segment a transcript event was made from.
ClipOf(e) ==
  "audio_segments/segment_" \o ToString(e.timestamp) \o "-"
    \o ToString(e.end_time) \o ".mp3"

\* C29: the audio-available flag handed to the report generator is true
\* exactly when a transcript event carries an audio reference; an event
\* carries one only if transcription was on, the per-segment extraction was
\* still on, and the transcoder call for that very segment succeeded; and a
\* run without transcription extracts no clip, even with --extract-audio.
C29_AudioFlagFollowsReferences ==
  /\ report.called =>
       (report.audio_available <=>
          \E k \in DOMAIN report.events :
            /\ report.events[k].type = "transcript"
            /\ report.events[k].audio_file # "")
  /\ (pc = "segments" \/ (pc = "report" /\ segments_list # <<>>)) =>
       \A j \in DOMAIN TranscriptEvents :
         TranscriptEvents[j].audio_file # "" =>
           /\ argv.transcribe
           /\ args.extract_audio
           /\ audio.segments_dir
           /\ j \in DOMAIN audio.calls
           /\ audio.calls[j].extracted
           /\ audio.calls[j].segment_id =
                "segment_" \o ToString(SegmentsWithText[j].start) \o "-"
                  \o ToString(SegmentsWithText[j].end)
           /\ TranscriptEvents[j].audio_file = ClipOf(TranscriptEvents[j])
  /\ \A j \in DOMAIN audio.calls :
       (pc \in {"segments", "report"} /\ ~audio.calls[j].extracted) =>
         TranscriptEvents[j].audio_file = ""
  /\ ~argv.transcribe =>
       /\ audio.calls = <<>>
       /\ ~dirs.audio_segments
       /\ \A k \in DOMAIN combined_events : combined_events[k].type = "snapshot"

\* A report of two transcript events: the clip of the first was extracted,
\* that of the second was not, and the flag is true.
C29_Witness ==
  /\ report.called
  /\ report.audio_available
  /\ pc = "cleanup"
  /\ Len(audio.calls) = 2
  /\ audio.calls[1].extracted
  /\ ~audio.calls[2].extracted
  /\ \E k \in DOMAIN report.events :
       /\ report.events[k].type = "transcript"
       /\ report.events[k].audio_file = ""

\* ==========================================================================
\* Properties of two runs on one output base (under SpecTwoRuns)
\* ==========================================================================
\* C30: two runs with the same output base and the same video base name,
\* interleaved, never end up with the same run output directory, and no
\* directory receives the files of both.
C30_RunsGetDifferentDirectories ==
  /\ (runs["run1"].pc \in {"write", "done"}
        /\ runs["run2"].pc \in {"write", "done"}) =>
       runs["run1"].output_path # runs["run2"].output_path
  /\ \A p \in DOMAIN disk : ~(RunIds \subseteq disk[p])

====
